---- MODULE Spec2Model ----
(***************************************************************************)
(* Model of rasl/tform.py: ParamvMixin, the parameter-vector mixin for     *)
(* the skimage transform classes.                                          *)
(*                                                                         *)
(* Python objects hold references to numpy buffers, so the state is a heap *)
(* of buffers and a list of transform instances whose attributes are       *)
(* addresses into it; an attribute assignment rebinds the address.         *)
(*                                                                         *)
(* A float is a pair <<n, d>>: the rational n/d in lowest terms with       *)
(* d > 0, or a non-finite value with d = 0 (<<0,0>> NaN, <<1,0>> +inf,     *)
(* <<-1,0>> -inf). Equality of two values is equality of the pairs, so a   *)
(* NaN recomputed the same way compares equal to itself here.              *)
(* A numpy array is its flat row-major data; a 3x3 matrix is 9 floats.     *)
(***************************************************************************)
EXTENDS Integers, Sequences, FiniteSets, TLC

(* ------------------------------ bounds -------------------------------- *)

\* mutating calls (setters, inset, clone) made after construction
MaxCalls == 3
\* pixels of an image handed to imtransform
MaxPix == 2
\* inset calls made when inset is run over its whole input space
MaxInsets == 2

(* ------------------------------ floats -------------------------------- *)

Abs(x) == IF x < 0 THEN -x ELSE x

Sgn(x) == IF x < 0 THEN -1 ELSE IF x > 0 THEN 1 ELSE 0

RECURSIVE Gcd(_, _)
Gcd(a, b) == IF b = 0 THEN a ELSE Gcd(b, a % b)

\* n/d as a float: lowest terms, d > 0; a zero divisor gives +-inf or NaN
Rat(n, d) ==
    IF d = 0 THEN <<Sgn(n), 0>>
    ELSE IF d = 1 THEN <<n, 1>>
    ELSE LET s == IF d < 0 THEN -1 ELSE 1
             g == Gcd(Abs(n), Abs(d))
         IN  <<(s * n) \div g, (s * d) \div g>>

R(n) == <<n, 1>>

NaN == <<0, 0>>

PInf == <<1, 0>>

NInf == <<-1, 0>>

IsNaN(a) == a = NaN

IsFinite(a) == a[2] # 0

RNeg(a) == <<-a[1], a[2]>>

RAdd(a, b) ==
    IF IsNaN(a) \/ IsNaN(b) THEN NaN
    ELSE IF a[2] = 0 /\ b[2] = 0 THEN (IF a = b THEN a ELSE NaN)
    ELSE IF a[2] = 0 THEN a
    ELSE IF b[2] = 0 THEN b
    ELSE Rat(a[1] * b[2] + b[1] * a[2], a[2] * b[2])

RSub(a, b) == RAdd(a, RNeg(b))

RMul(a, b) ==
    IF IsNaN(a) \/ IsNaN(b) THEN NaN
    ELSE IF a[2] = 0 \/ b[2] = 0
         THEN (IF a[1] = 0 \/ b[1] = 0 THEN NaN ELSE <<Sgn(a[1]) * Sgn(b[1]), 0>>)
    ELSE Rat(a[1] * b[1], a[2] * b[2])

\* numpy float division: x/0 is +-inf, 0/0 is NaN (a warning, no exception)
RDiv(a, b) ==
    IF IsNaN(a) \/ IsNaN(b) THEN NaN
    ELSE IF a[2] = 0 /\ b[2] = 0 THEN NaN
    ELSE IF a[2] = 0 THEN <<a[1] * (IF b[1] < 0 THEN -1 ELSE 1), 0>>
    ELSE IF b[2] = 0 THEN R(0)
    ELSE Rat(a[1] * b[2], a[2] * b[1])

\* a < b, for finite a and b
RLt(a, b) == a[1] * b[2] < b[1] * a[2]

RLe(a, b) == a[1] * b[2] <= b[1] * a[2]

\* np.floor of a finite float
RFloor(a) == R(a[1] \div a[2])

\* a sequence of integers as an array of floats
Floats(s) == [k \in 1..Len(s) |-> R(s[k])]

(* ----------------------------- matrices ------------------------------- *)

eye3 == Floats(<<1, 0, 0, 0, 1, 0, 0, 0, 1>>)

\* A.dot(B) for 3x3 matrices
dot(A, B) ==
    [k \in 1..9 |->
        LET r == 3 * ((k - 1) \div 3)
            c == ((k - 1) % 3) + 1
        IN  RAdd(RAdd(RMul(A[r + 1], B[c]), RMul(A[r + 2], B[3 + c])),
                 RMul(A[r + 3], B[6 + c]))]

(* ------------------- the per-family parameter codec ------------------- *)
\* toolbox.parameters_to_projective_matrix / projective_matrix_to_parameters
\* for the families whose layout needs no trigonometry.

TTypes == {"translate", "affine", "projective"}

ParamLen(ttype) ==
    CASE ttype = "translate" -> 2
      [] ttype = "affine" -> 6
      [] ttype = "projective" -> 8

\* the codec accepts v: its length is the family's
ValidParams(ttype, v) == Len(v) = ParamLen(ttype)

parameters_to_projective_matrix(ttype, v) ==
    CASE ttype = "translate" ->
            <<R(1), R(0), v[1], R(0), R(1), v[2], R(0), R(0), R(1)>>
      [] ttype = "affine" ->
            <<v[1], v[2], v[3], v[4], v[5], v[6], R(0), R(0), R(1)>>
      [] ttype = "projective" ->
            <<v[1], v[2], v[3], v[4], v[5], v[6], v[7], v[8], R(1)>>

\* the codec accepts m: it lies in the family's parameter subspace
InFamily(ttype, m) ==
    CASE ttype = "translate" ->
            m = <<R(1), R(0), m[3], R(0), R(1), m[6], R(0), R(0), R(1)>>
      [] ttype = "affine" -> <<m[7], m[8], m[9]>> = <<R(0), R(0), R(1)>>
      [] ttype = "projective" -> m[9] = R(1)

projective_matrix_to_parameters(ttype, m) ==
    CASE ttype = "translate" -> <<m[3], m[6]>>
      [] ttype = "affine" -> <<m[1], m[2], m[3], m[4], m[5], m[6]>>
      [] ttype = "projective" -> <<m[1], m[2], m[3], m[4], m[5], m[6], m[7], m[8]>>

(* ------------------------------- state -------------------------------- *)

VARIABLES
    objs,    \* the transform instances: the source first, then its clones
    heap,    \* address -> buffer contents
    last,    \* the last call: its arguments and how it ended
    ncalls   \* mutating calls made so far

vars == <<objs, heap, last, ncalls>>

\* address 0 is None
None == 0

\* the smallest address not in use
NewAddr(h) ==
    CHOOSE a \in 1..(Cardinality(DOMAIN h) + 1) :
        a \notin DOMAIN h /\ \A b \in 1..(a - 1) : b \in DOMAIN h

\* h with a fresh buffer holding v at address a
Put(h, a, v) == [b \in DOMAIN h \cup {a} |-> IF b = a THEN v ELSE h[b]]

Bufs(o) == {o.paramv, o.matrix, o.frame, o.output_shape, o.params} \ {None}

\* h without the buffers no instance of os refers to
Collect(os, h) ==
    [a \in UNION {Bufs(os[i]) : i \in 1..Len(os)} |-> h[a]]

NoArray == [shape |-> <<>>, data |-> <<>>]

NoCall ==
    [op |-> "none", target |-> 0, err |-> "none",
     hasParamv |-> FALSE, hasMatrix |-> FALSE, vec |-> <<>>,
     shape |-> <<>>, bspec |-> NoArray, crop |-> FALSE,
     image |-> <<>>, cval |-> R(0), timage |-> <<>>, result |-> <<>>,
     warped |-> FALSE]

Init ==
    /\ objs = <<>>
    /\ heap = <<>>
    /\ last = NoCall
    /\ ncalls = 0

(* ------------------------------ setters ------------------------------- *)
\* Each returns the instance and heap it leaves behind and the error raised;
\* an error leaves whatever the statements before it assigned.

\* the paramv setter
set_paramv(o, h, v) ==
    LET a1 == NewAddr(h)
        h1 == Put(h, a1, v)
        o1 == [o EXCEPT !.paramv = a1]
    IN  IF ~ValidParams(o.ttype, v)
        THEN [o |-> o1, h |-> h1, err |-> "InvalidParameterError"]
        ELSE LET a2 == NewAddr(h1)
                 h2 == Put(h1, a2, parameters_to_projective_matrix(o.ttype, v))
                 o2 == [o1 EXCEPT !.matrix = a2]
                 a3 == NewAddr(h2)
                 h3 == Put(h2, a3, dot(h2[o2.frame], h2[o2.matrix]))
             IN  [o |-> [o2 EXCEPT !.params = a3], h |-> h3, err |-> "none"]

\* where the frame setter stores the new frame: a fresh copy
frame_in_place(o, h) == o.frame

frame_buffer(o, h) == NewAddr(h)

\* the frame setter
set_frame(o, h, f) ==
    LET a1 == frame_buffer(o, h)
        h1 == Put(h, a1, f)
        o1 == [o EXCEPT !.frame = a1]
        a2 == NewAddr(h1)
        h2 == Put(h1, a2, dot(h1[o1.frame], h1[o1.matrix]))
    IN  [o |-> [o1 EXCEPT !.params = a2], h |-> h2, err |-> "none"]

\* the matrix setter
set_matrix(o, h, m) ==
    LET a1 == NewAddr(h)
        h1 == Put(h, a1, m)
        o1 == [o EXCEPT !.matrix = a1]
    IN  IF ~InFamily(o.ttype, m)
        THEN [o |-> o1, h |-> h1, err |-> "InvalidParameterError"]
        ELSE LET a2 == NewAddr(h1)
                 h2 == Put(h1, a2, projective_matrix_to_parameters(o.ttype, m))
                 o2 == [o1 EXCEPT !.paramv = a2]
                 a3 == NewAddr(h2)
                 h3 == Put(h2, a3, dot(h2[o2.frame], h2[o2.matrix]))
             IN  [o |-> [o2 EXCEPT !.params = a3], h |-> h3, err |-> "none"]

(* ------------------------------- inset -------------------------------- *)
\* A numpy array is [shape, data]: shape <<>> for a 0-d scalar, <<n>> for a
\* vector, <<r, c>> for a 2-d array, and data its r*c elements row by row.

Size(b) == Len(b.data)

\* lines 175-181: the boundary given as a width, as a size, or as it is.
\* (Of the arrays of two elements only the 1-d pair is drawn as an input.)
given_bounds(shape, b) ==
    IF b.shape = <<>>
    THEN LET w == b.data[1]
             e == RSub(RNeg(w), R(1))
         IN  [shape |-> <<2, 2>>, data |-> <<w, w, e, e>>]
    ELSE IF Size(b) = 2
    THEN LET i1 == RDiv(RSub(shape[1], b.data[1]), R(2))
             i2 == RDiv(RSub(shape[2], b.data[2]), R(2))
         IN  [shape |-> <<2, 2>>,
              data |-> <<RFloor(i1), RFloor(i2),
                         RFloor(RSub(RNeg(i1), R(1))),
                         RFloor(RSub(RNeg(i2), R(1)))>>]
    ELSE b

\* numpy broadcasting of the 2-vector shape against an array of shape bs
\* (1-d or 2-d): the last axis must have length 2 or 1
Broadcasts(bs) == bs[Len(bs)] \in {1, 2}

\* line 182: np.where(bounds < 0, shape + bounds, bounds), where it broadcasts
negative_idxs(shape, b) ==
    LET rows == IF Len(b.shape) = 1 THEN 1 ELSE b.shape[1]
        cols == b.shape[Len(b.shape)]
        at(i, j) == b.data[(i - 1) * cols + (IF cols = 1 THEN 1 ELSE j)]
        el(k) == LET i == ((k - 1) \div 2) + 1
                     j == ((k - 1) % 2) + 1
                     v == at(i, j)
                 IN  IF RLt(v, R(0)) THEN RAdd(shape[j], v) ELSE v
    IN  [shape |-> IF Len(b.shape) = 1 THEN <<2>> ELSE <<rows, 2>>,
         data |-> [k \in 1..(rows * 2) |-> el(k)]]

\* lines 173-182: the exception numpy raises on the way, or the bounds
resolve_bounds(shape, b) ==
    LET g == given_bounds(shape, b)
    IN  IF ~Broadcasts(g.shape)
        THEN [err |-> "ValueError", bounds |-> NoArray]
        ELSE LET n == negative_idxs(shape, g)
             IN  IF Len(n.shape) < 2 \/ n.shape[1] < 2
                 THEN [err |-> "IndexError", bounds |-> NoArray]
                 ELSE [err |-> "none", bounds |-> n]

\* bounds[0, :] and bounds[1, :]
Row0(n) == <<n.data[1], n.data[2]>>

Row1(n) == <<n.data[3], n.data[4]>>

\* lines 183-188: (scale, output shape) in (row, col) order
inset_scale(shape, n, crop) ==
    IF crop THEN <<R(1), R(1)>>
    ELSE <<RDiv(RSub(Row1(n)[1], Row0(n)[1]), RSub(shape[1], R(1))),
           RDiv(RSub(Row1(n)[2], Row0(n)[2]), RSub(shape[2], R(1)))>>

inset_output_shape(shape, n, crop) ==
    IF crop
    THEN <<RAdd(RSub(Row1(n)[1], Row0(n)[1]), R(1)),
           RAdd(RSub(Row1(n)[2], Row0(n)[2]), R(1))>>
    ELSE shape

\* the frame's parameters with the axes left in (row, col) order
frame_params_rowcol(scale, n) ==
    <<scale[1], R(0), Row0(n)[1], R(0), scale[2], Row0(n)[2]>>

\* line 191: the frame's affine parameters, x and y swapped
frame_params(scale, n) ==
    <<scale[2], R(0), Row0(n)[2], R(0), scale[1], Row0(n)[1]>>

\* inset(shape, frame, crop) on instance o
inset(o, h, shape, b, crop) ==
    LET rb == resolve_bounds(shape, b)
    IN  IF rb.err # "none" THEN [o |-> o, h |-> h, err |-> rb.err]
        ELSE LET n == rb.bounds
                 scale == inset_scale(shape, n, crop)
                 a1 == NewAddr(h)
                 h1 == Put(h, a1, inset_output_shape(shape, n, crop))
                 o1 == [o EXCEPT !.output_shape = a1]
                 framemat == parameters_to_projective_matrix(
                                 "affine", frame_params(scale, n))
             IN  set_frame(o1, h1, framemat)

(* ---------------------------- imtransform ----------------------------- *)

\* the largest finite double, which np.nan_to_num puts for +inf (and its
\* negative for -inf); here a finite value no pixel of the model has
FloatMax == 1000000

\* a check that passes when any pixel is a number
image_ok_any(image) == \E k \in 1..Len(image) : ~IsNaN(image[k])

\* line 135: np.all(image == image); only NaN differs from itself
image_ok(image) == \A k \in 1..Len(image) : ~IsNaN(image[k])

nan_to_num(x) ==
    IF IsNaN(x) THEN R(0)
    ELSE IF x = PInf THEN R(FloatMax)
    ELSE IF x = NInf THEN R(-FloatMax)
    ELSE x

\* lines 140-143: the fill value put into the warped image
postprocess(timage, cval) ==
    IF cval = R(0) THEN [k \in 1..Len(timage) |-> nan_to_num(timage[k])]
    ELSE IF IsFinite(cval)
    THEN [k \in 1..Len(timage) |->
             IF IsFinite(timage[k]) THEN timage[k] ELSE cval]
    ELSE timage

\* tf.warp with order 0 and cval NaN: every output pixel is a pixel of the
\* source or, where it maps outside the source, NaN
Warp(image) ==
    [1..Len(image) -> {image[k] : k \in 1..Len(image)} \cup {NaN}]

(* ------------------------------- inputs ------------------------------- *)

ParamvInputs ==
    {Floats(<<1, 2>>), Floats(<<1, 0, 1, 0, 1, 2>>),
     Floats(<<1, 0, 0, 0, 1, 0, 1, 0>>)}

MatrixInputs ==
    {Floats(<<1, 0, 1, 0, 1, 2, 0, 0, 1>>),    \* a translation
     Floats(<<2, 0, 0, 0, 2, 0, 0, 0, 1>>),    \* a scaling
     Floats(<<1, 0, 0, 0, 1, 0, 1, 0, 1>>),    \* a perspective map
     Floats(<<1, 0, 0, 0, 1, 0, 0, 0, 2>>)}    \* in no family's subspace

FrameInputs == {Floats(<<1, 0, 1, 0, 1, 0, 0, 0, 1>>)}

Scalar(w) == [shape |-> <<>>, data |-> <<w>>]

Vector(s) == [shape |-> <<Len(s)>>, data |-> s]

Array2(r, c, s) == [shape |-> <<r, c>>, data |-> s]

(* ------------------------------ actions ------------------------------- *)

\* __init__(paramv, matrix): lines 24-34. The base class's params (line 25)
\* is rebound by the setter that follows; a setter that raises leaves no
\* instance.
Construct(ttype, hasParamv, paramv, hasMatrix, matrix) ==
    /\ Len(objs) = 0
    /\ LET a0 == NewAddr(heap)
           h0 == Put(heap, a0, eye3)
           o0 == [ttype |-> ttype, paramv |-> None, matrix |-> None,
                  frame |-> a0, output_shape |-> None, params |-> None]
           r == IF hasMatrix THEN set_matrix(o0, h0, matrix)
                ELSE IF hasParamv THEN set_paramv(o0, h0, paramv)
                ELSE set_paramv(o0, h0,
                                projective_matrix_to_parameters(ttype, eye3))
       IN  /\ objs' = IF r.err = "none" THEN <<r.o>> ELSE objs
           /\ heap' = IF r.err = "none" THEN Collect(<<r.o>>, r.h) ELSE heap
           /\ last' = [NoCall EXCEPT !.op = "construct", !.target = 1,
                                     !.err = r.err,
                                     !.hasParamv = hasParamv,
                                     !.hasMatrix = hasMatrix]
    /\ UNCHANGED ncalls

ConstructDefault ==
    \E ttype \in TTypes : Construct(ttype, FALSE, <<>>, FALSE, <<>>)

ConstructParamv ==
    \E ttype \in TTypes, v \in ParamvInputs :
        Construct(ttype, TRUE, v, FALSE, <<>>)

ConstructMatrix ==
    \E ttype \in TTypes, m \in MatrixInputs :
        Construct(ttype, FALSE, <<>>, TRUE, m)

ConstructBoth ==
    \E ttype \in TTypes, v \in ParamvInputs, m \in MatrixInputs :
        Construct(ttype, TRUE, v, TRUE, m)

\* a setter or inset on instance i, r being what it returns
Mutate(i, r, call) ==
    /\ ncalls < MaxCalls
    /\ objs' = [objs EXCEPT ![i] = r.o]
    /\ heap' = Collect([objs EXCEPT ![i] = r.o], r.h)
    /\ last' = [call EXCEPT !.target = i, !.err = r.err]
    /\ ncalls' = ncalls + 1

SetParamVector ==
    \E i \in 1..Len(objs), v \in ParamvInputs :
        Mutate(i, set_paramv(objs[i], heap, v),
               [NoCall EXCEPT !.op = "setParamVector", !.vec = v])

SetMatrix ==
    \E i \in 1..Len(objs), m \in MatrixInputs :
        Mutate(i, set_matrix(objs[i], heap, m),
               [NoCall EXCEPT !.op = "setMatrix", !.vec = m])

SetFrame ==
    \E i \in 1..Len(objs), f \in FrameInputs :
        Mutate(i, set_frame(objs[i], heap, f),
               [NoCall EXCEPT !.op = "setFrame", !.vec = f])

InsetCall(i, shape, b, crop) ==
    Mutate(i, inset(objs[i], heap, shape, b, crop),
           [NoCall EXCEPT !.op = "inset", !.shape = shape, !.bspec = b,
                          !.crop = crop])

\* clone(paramv): lines 36-55; a setter that raises leaves no clone
Clone(i, hasParamv, paramv) ==
    /\ ncalls < MaxCalls
    /\ LET r == set_paramv(objs[i], heap,
                           IF hasParamv THEN paramv ELSE heap[objs[i].paramv])
       IN  /\ objs' = IF r.err = "none" THEN Append(objs, r.o) ELSE objs
           /\ heap' = IF r.err = "none"
                      THEN Collect(Append(objs, r.o), r.h) ELSE heap
           /\ last' = [NoCall EXCEPT !.op = "clone", !.target = i,
                                     !.err = r.err, !.hasParamv = hasParamv]
    /\ ncalls' = ncalls + 1

CloneSame == \E i \in 1..Len(objs) : Clone(i, FALSE, <<>>)

CloneWith == \E i \in 1..Len(objs), v \in ParamvInputs : Clone(i, TRUE, v)

\* the inset calls of the transform's own state machine
InsetOne ==
    \E i \in 1..Len(objs), crop \in BOOLEAN :
        InsetCall(i, Floats(<<4, 4>>), Scalar(R(1)), crop)

Next ==
    \/ ConstructDefault
    \/ ConstructParamv
    \/ ConstructMatrix
    \/ ConstructBoth
    \/ SetParamVector
    \/ SetMatrix
    \/ SetFrame
    \/ InsetOne
    \/ CloneSame
    \/ CloneWith

Spec == Init /\ [][Next]_vars

(* --------------------- inset over its input space --------------------- *)

Shapes == {Floats(<<1, 4>>), Floats(<<4, 4>>), Floats(<<5, 3>>)}

Widths == {R(-1), R(0), R(1), R(2)}

Sizes == {R(1), R(2), <<5, 2>>, R(4)}

Mins == {R(0), R(1)}

Maxs == {R(-1), R(1)}

\* the three forms: a width, a (height, width) size, ((min), (max)) points
BoundarySpecs ==
    {Scalar(w) : w \in Widths}
    \cup {Vector(<<h, w>>) : h \in Sizes, w \in Sizes}
    \cup {Array2(2, 2, <<r0, c0, r1, c1>>) :
              r0 \in Mins, c0 \in Mins, r1 \in Maxs, c1 \in Maxs}

\* arrays of another rank or shape
OtherSpecs ==
    {Vector(Floats(<<1>>)), Vector(Floats(<<1, 1, 2>>)),
     Array2(3, 2, Floats(<<1, 0, 2, 3, 0, 0>>)),
     Array2(2, 3, Floats(<<0, 0, 0, 2, 2, 2>>))}

ConstructAffine == Construct("affine", FALSE, <<>>, FALSE, <<>>)

InsetForms ==
    \E i \in 1..Len(objs), shape \in Shapes, b \in BoundarySpecs,
       crop \in BOOLEAN :
        ncalls < MaxInsets /\ InsetCall(i, shape, b, crop)

InsetOther ==
    \E i \in 1..Len(objs), b \in OtherSpecs, crop \in BOOLEAN :
        ncalls < MaxInsets /\ InsetCall(i, Floats(<<4, 4>>), b, crop)

NextInset ==
    \/ ConstructAffine
    \/ InsetForms
    \/ InsetOther

SpecInset == Init /\ [][NextInset]_vars

(* ------------------------ imtransform's inputs ------------------------ *)

PixelVals == {R(3), NaN, PInf, NInf}

Images == UNION {[1..n -> PixelVals] : n \in 1..MaxPix}

CVals == {R(0), R(5), NaN, PInf}

\* imtransform(image, order, cval): lines 119-144. It assigns nothing to
\* self, so a second call in a row starts from the program state of the
\* first and is not taken again.
Imtransform ==
    \E i \in 1..Len(objs), image \in Images, cval \in CVals :
        /\ last.op # "imtransform"
        /\ IF ~image_ok(image)
           THEN last' = [NoCall EXCEPT !.op = "imtransform", !.target = i,
                                       !.err = "ValueError",
                                       !.image = image, !.cval = cval]
           ELSE \E timage \in Warp(image) :
                    last' = [NoCall EXCEPT !.op = "imtransform",
                                           !.target = i,
                                           !.image = image, !.cval = cval,
                                           !.warped = TRUE,
                                           !.timage = timage,
                                           !.result = postprocess(timage, cval)]
        /\ UNCHANGED <<objs, heap, ncalls>>

NextWarp ==
    \/ ConstructDefault
    \/ ConstructParamv
    \/ InsetOne
    \/ Imtransform

SpecWarp == Init /\ [][NextWarp]_vars

(* ------------------------------- claims ------------------------------- *)

Instances == 1..Len(objs)

\* what a caller reads from instance o in heap h
Value(h, a) == IF a = None THEN <<>> ELSE h[a]

View(o, h) ==
    [ttype |-> o.ttype, paramv |-> h[o.paramv], matrix |-> h[o.matrix],
     frame |-> h[o.frame], params |-> h[o.params],
     output_shape |-> Value(h, o.output_shape)]

\* the data-model invariants 1-3 on instance o
Consistent(o) ==
    /\ ValidParams(o.ttype, heap[o.paramv])
    /\ InFamily(o.ttype, heap[o.matrix])
    /\ heap[o.matrix] = parameters_to_projective_matrix(o.ttype, heap[o.paramv])
    /\ heap[o.paramv] = projective_matrix_to_parameters(o.ttype, heap[o.matrix])
    /\ heap[o.params] = dot(heap[o.frame], heap[o.matrix])

\* C1: in every reachable state, on the source and on every clone, the
\* effective matrix (params) equals the product frame . matrix.
C1_EffectiveIsProduct ==
    \A i \in Instances :
        heap[objs[i].params] = dot(heap[objs[i].frame], heap[objs[i].matrix])

\* C2: after a setParamVector or setMatrix call that the codec rejected,
\* paramVector, matrix and effective matrix are still mutually consistent:
\* no stored field holds the rejected value.
C2_FailedSetterLeavesConsistent ==
    (last.op \in {"setParamVector", "setMatrix"}
        /\ last.err = "InvalidParameterError")
    => Consistent(objs[last.target])

\* C3: right after clone, with or without a paramVector, no buffer the clone
\* holds (paramVector, matrix, frame, output shape, effective matrix) is a
\* buffer the source holds.
C3_CloneSharesNoBuffer ==
    (last.op = "clone" /\ last.err = "none")
    => Bufs(objs[Len(objs)]) \cap Bufs(objs[last.target]) = {}

\* C4: a clone made with no argument has the source's paramVector, family,
\* frame and output shape, and every call (a setter, inset, clone) on one
\* instance leaves what every other instance reads unchanged.
C4_CloneIndependent ==
    [][/\ (last'.op = "clone" /\ last'.err = "none" /\ ~last'.hasParamv)
          => LET src == View(objs[last'.target], heap)
                 cln == View(objs'[Len(objs')], heap')
             IN  /\ Len(objs') = Len(objs) + 1
                 /\ cln.paramv = src.paramv
                 /\ cln.ttype = src.ttype
                 /\ cln.frame = src.frame
                 /\ cln.output_shape = src.output_shape
       /\ \A j \in Instances :
             (last'.op \in {"setParamVector", "setMatrix", "setFrame",
                            "inset", "clone"}
                 /\ (j # last'.target \/ last'.op = "clone"))
             => View(objs'[j], heap') = View(objs[j], heap)
      ]_vars

\* two instances that still hold one output-shape buffer, the second given
\* another frame after it was cloned
C4_Witness ==
    /\ Len(objs) >= 2
    /\ last.op = "setFrame" /\ last.target = 2 /\ last.err = "none"
    /\ objs[1].output_shape = objs[2].output_shape
    /\ objs[1].output_shape # None
    /\ heap[objs[1].frame] # heap[objs[2].frame]

\* C8: a construct call given both a paramVector and a matrix does not
\* yield a transform (built from one, the other ignored).
C8_BothArgumentsRejected ==
    (last.op = "construct" /\ last.hasParamv /\ last.hasMatrix)
    => (last.err # "none" /\ Len(objs) = 0)

(* ---------------------------- inset claims ---------------------------- *)

\* the boundary is a scalar, a pair or a pair of pairs
ThreeForm(b) == b.shape \in {<<>>, <<2>>, <<2, 2>>}

\* the frame and output shape the last call's target holds
FrameOf(i) == heap[objs[i].frame]

OutputShapeOf(i) == Value(heap, objs[i].output_shape)

\* the frame of instance i as affine parameters:
\* [scale_col, ., origin_col, ., scale_row, origin_row]
FrameParams(i) == projective_matrix_to_parameters("affine", FrameOf(i))

\* the window the last inset call resolved, per axis k (1 row, 2 col)
Extent(k) ==
    LET n == resolve_bounds(last.shape, last.bspec).bounds
    IN  RSub(Row1(n)[k], Row0(n)[k])

\* C5: inset with crop == false fails, leaving the transform as it was,
\* whenever an axis of shape is 1 or the resolved window has
\* bounds[1] <= bounds[0] on an axis; a frame it installs has a finite
\* positive scale.
C5_DegenerateInsetFails ==
    (last.op = "inset" /\ ~last.crop /\ ThreeForm(last.bspec))
    => /\ (\E k \in 1..2 : last.shape[k] = R(1) \/ RLe(Extent(k), R(0)))
             => last.err # "none"
       /\ last.err = "none"
             => \A k \in {1, 5} :
                   IsFinite(FrameParams(last.target)[k])
                       /\ RLt(R(0), FrameParams(last.target)[k])

\* C6: for a boundary that is not a scalar, a pair or a pair of pairs, inset
\* fails at the call.
C6_OtherShapesRejected ==
    (last.op = "inset" /\ ~ThreeForm(last.bspec)) => last.err # "none"

\* The window as section 4.2 resolves it: the bound of axis k, first as
\* given by the form, then counted from the far edge when negative.
RefGiven(shape, b, k, upper) ==
    IF b.shape = <<>>
    THEN (IF upper THEN Rat(-b.data[1][1] - b.data[1][2], b.data[1][2])
          ELSE b.data[1])
    ELSE IF b.shape = <<2>>
    THEN LET diff == RSub(shape[k], b.data[k])
         IN  IF upper
             THEN RFloor(RSub(RDiv(RNeg(diff), R(2)), R(1)))
             ELSE RFloor(RDiv(diff, R(2)))
    ELSE b.data[(IF upper THEN 2 ELSE 0) + k]

RefBound(shape, b, k, upper) ==
    LET v == RefGiven(shape, b, k, upper)
    IN  IF v[1] < 0 THEN RAdd(shape[k], v) ELSE v

RefScale(shape, b, crop, k) ==
    IF crop THEN R(1)
    ELSE RDiv(RSub(RefBound(shape, b, k, TRUE), RefBound(shape, b, k, FALSE)),
              RSub(shape[k], R(1)))

RefOutputShape(shape, b, crop, k) ==
    IF crop
    THEN RAdd(RSub(RefBound(shape, b, k, TRUE), RefBound(shape, b, k, FALSE)),
              R(1))
    ELSE shape[k]

\* an inset call the claim covers: one of the three forms, and with
\* crop == false a shape above 1 on both axes
Covered ==
    /\ last.op = "inset"
    /\ ThreeForm(last.bspec)
    /\ last.crop \/ (RLt(R(1), last.shape[1]) /\ RLt(R(1), last.shape[2]))

\* the call installed the output shape and frame of section 4.2
InsetResolved ==
    LET sh == last.shape
        b == last.bspec
        c == last.crop
    IN  /\ last.err = "none"
        /\ OutputShapeOf(last.target)
               = <<RefOutputShape(sh, b, c, 1), RefOutputShape(sh, b, c, 2)>>
        /\ FrameOf(last.target)
               = parameters_to_projective_matrix("affine",
                   <<RefScale(sh, b, c, 2), R(0), RefBound(sh, b, 2, FALSE),
                     R(0), RefScale(sh, b, c, 1), RefBound(sh, b, 1, FALSE)>>)

\* a scalar w gives the offset (w, w) and, cropping, the shape less 2w
ScalarInset ==
    LET w == last.bspec.data[1]
        two_w == RAdd(w, w)
    IN  /\ FrameParams(last.target)[3] = w
        /\ FrameParams(last.target)[6] = w
        /\ last.crop => OutputShapeOf(last.target)
                            = <<RSub(last.shape[1], two_w),
                                RSub(last.shape[2], two_w)>>

IsScalarWithin ==
    /\ last.bspec.shape = <<>>
    /\ \A k \in 1..2 :
          RLt(RAdd(last.bspec.data[1], last.bspec.data[1]), last.shape[k])

IsPairWithin ==
    /\ last.bspec.shape = <<2>>
    /\ last.crop
    /\ \A k \in 1..2 : /\ RLe(R(1), last.bspec.data[k])
                       /\ RLe(last.bspec.data[k], last.shape[k])

\* C7 as stated: inset installs the output shape and frame of section 4.2;
\* a scalar w with 2w < shape gives output shape shape - 2w and offset
\* (w, w); a pair (h, w) with 1 <= size <= shape gives output shape (h, w).
C7_InsetAsStated ==
    Covered
    => /\ InsetResolved
       /\ IsScalarWithin => ScalarInset
       /\ IsPairWithin => OutputShapeOf(last.target) = last.bspec.data

\* C7, amended: the same, the scalar w being at least 0 and the pair's
\* sizes being whole numbers.
C7_InsetAsAmended ==
    Covered
    => /\ InsetResolved
       /\ (IsScalarWithin /\ RLe(R(0), last.bspec.data[1])) => ScalarInset
       /\ (IsPairWithin /\ \A k \in 1..2 : last.bspec.data[k][2] = 1)
             => OutputShapeOf(last.target) = last.bspec.data

\* a zoom into a window given by its corner points, the two axes scaled
\* differently
C7_Witness ==
    /\ last.op = "inset" /\ last.err = "none" /\ ~last.crop
    /\ last.bspec.shape = <<2, 2>>
    /\ \A k \in {1, 5} : IsFinite(FrameParams(last.target)[k])
    /\ FrameParams(last.target)[1] # FrameParams(last.target)[5]
    /\ FrameParams(last.target)[3] # FrameParams(last.target)[6]

(* ------------------------- imtransform claims ------------------------- *)

\* C9: the post-pass changes the NaN pixels of the warped image and no
\* other: to cval when cval is finite (0 included), to nothing otherwise.
C9_OnlyNaNReplaced ==
    (last.op = "imtransform" /\ last.warped)
    => /\ Len(last.result) = Len(last.timage)
       /\ \A k \in 1..Len(last.timage) :
             last.result[k] =
                 IF last.timage[k] = NaN /\ IsFinite(last.cval)
                 THEN last.cval ELSE last.timage[k]

\* C10: imtransform raises exactly when some pixel of the image is NaN, and
\* then before the warp and without changing the transform.
C10_NaNImageRejected ==
    [][last'.op = "imtransform"
       => IF \E k \in 1..Len(last'.image) : last'.image[k] = NaN
          THEN /\ last'.err = "ValueError"
               /\ ~last'.warped
               /\ objs' = objs /\ heap' = heap
          ELSE last'.err = "none" /\ last'.warped
      ]_vars

\* an image with a NaN pixel and a pixel that is a number, handed to a
\* transform that holds an inset frame
C10_Witness ==
    /\ last.op = "imtransform" /\ last.err = "ValueError"
    /\ \E k \in 1..Len(last.image) : last.image[k] = NaN
    /\ \E k \in 1..Len(last.image) : last.image[k] # NaN
    /\ objs[last.target].output_shape # None

====
